---- MODULE Spec2Model ----
(***************************************************************************)
(* Model of the XION credential verifier (app/services/xion_rest_client.py)*)
(* and of the credit deduction client (app/services/xion_service.py).      *)
(*                                                                         *)
(* Python strings are sequences of one-character strings; JSON values are  *)
(* records [k, b, n, s] tagged by their kind k.                            *)
(***************************************************************************)
EXTENDS Naturals, Sequences, FiniteSets

\* ---------------------------------------------------------------- bounds
MaxTokLen == 3

\* ------------------------------------------------------------ strings
Alphabet == {"a", "b", ":"}

Strings == UNION {[1..n -> Alphabet] : n \in 0..MaxTokLen}

TextTrue == <<"t", "r", "u", "e">>

TextFalse == <<"f", "a", "l", "s", "e">>

HasColon(s) == \E i \in 1..Len(s) : s[i] = ":"

\* index of the first ":" of s, 0 when there is none
FirstColon(s) ==
  IF HasColon(s) THEN CHOOSE i \in 1..Len(s) : s[i] = ":" /\ \A j \in 1..(i-1) : s[j] # ":"
  ELSE 0

RECURSIVE Split(_)
\* str.split(":"): always at least one segment; "" splits to [""]
Split(s) ==
  IF ~HasColon(s) THEN <<s>>
  ELSE <<SubSeq(s, 1, FirstColon(s) - 1)>> \o Split(SubSeq(s, FirstColon(s) + 1, Len(s)))

\* ---------------------------------------------------------------- state
\* one verify_user_token call: its position, its token argument, the endpoints
\* attempted, whether the REST query returned, the CLI runs, where the record
\* handed to _validate_token came from, the returned value, the warning
\* logged; validations counts the records handed to _validate_token
VARIABLES vpc, token, attempts, restReturned, cliCalls, cliOutcome, cliForm,
          source, record, ret, warned, validations

\* one deduct_cv_credit_with_retry call: its position, its arguments and loop
\* variable, the calls of deduct_cv_credit and the sleeps made, the
\* transactions submitted and settled on the chain, the outcome of the last
\* deduct_cv_credit call and the returned outcome, whether each call succeeded,
\* and what the chain did in the last call (its failing stage and exception,
\* the credits_remaining values its events carried), and the number of the
\* first transaction whose settlement wait_to_complete reported (0: none)
VARIABLES dpc, max_retries, attempt, calls, sleeps, submitted, settled, lastOutcome, dret,
          history, lastScn, lastEmitted, observed

\* one record and one presented token put before both verifiers, the record
\* delivered to XionCLIClient over each transport and format: the position, the
\* record, the token, the decision per delivery and the value each handed on
VARIABLES cpc, cRecord, cToken, cDecision, cUsed

\* one run of the xiond command: the position, what the command did, what
\* _query_contract_cli made of it, and how verify_user_token went on
VARIABLES qpc, qRun, qOut, qTreat

\* one POST /api/cv-analysis request and the GET /health requests answered
\* meanwhile: the position, the mode (DEV_MODE), whether the body is
\* well-formed, whether the credential dependency returned, how the AI call
\* ended, the calls of deduct_cv_credit and the last outcome, the response
\* (status, detail, keys of the body), and the last /health response
VARIABLES rpc, rMode, rWellFormed, rVerified, rAi, rDeducts, rDeduction,
          rStatus, rDetail, rBody, health

\* calls running concurrently on the same service objects: the configuration
\* the objects hold, and per call its kind, position, loop variable, the
\* results of its own transport calls, its sleeps and its returned value
VARIABLES config, pKind, ppc, pIndex, pLog, pSleeps, pRet

\* one call of XionContractService.verify_user_token: its position, the token
\* presented, what contract.query did, and the value returned
VARIABLES spc, sToken, sQuery, sRet

\* one call of verify_xion_transaction: its position, the public key
\* presented, the answer of the blockchain API, and how the call ended
VARIABLES tpc, tKey, tAnswer, tOut

vvars == <<vpc, token, attempts, restReturned, cliCalls, cliOutcome, cliForm,
           source, record, ret, warned, validations>>

dvars == <<dpc, max_retries, attempt, calls, sleeps, submitted, settled, lastOutcome, dret,
           history, lastScn, lastEmitted, observed>>

cvars == <<cpc, cRecord, cToken, cDecision, cUsed>>

qvars == <<qpc, qRun, qOut, qTreat>>

rvars == <<rpc, rMode, rWellFormed, rVerified, rAi, rDeducts, rDeduction,
           rStatus, rDetail, rBody, health>>

pvars == <<config, pKind, ppc, pIndex, pLog, pSleeps, pRet>>

svars == <<spc, sToken, sQuery, sRet>>

tvars == <<tpc, tKey, tAnswer, tOut>>

vars == <<vvars, dvars, cvars, qvars, rvars, pvars, svars, tvars>>

\* the variables each call leaves alone
vOthers == <<dvars, cvars, qvars, rvars, pvars, svars, tvars>>

dOthers == <<vvars, cvars, qvars, rvars, pvars, svars, tvars>>

cOthers == <<vvars, dvars, qvars, rvars, pvars, svars, tvars>>

qOthers == <<vvars, dvars, cvars, rvars, pvars, svars, tvars>>

rOthers == <<vvars, dvars, cvars, qvars, pvars, svars, tvars>>

pOthers == <<vvars, dvars, cvars, qvars, rvars, svars, tvars>>

sOthers == <<vvars, dvars, cvars, qvars, rvars, pvars, tvars>>

tOthers == <<vvars, dvars, cvars, qvars, rvars, pvars, svars>>

\* ------------------------------------------------------- JSON values
Absent == [k |-> "absent", b |-> FALSE, n |-> 0, s |-> <<>>]

JNull == [k |-> "null", b |-> FALSE, n |-> 0, s |-> <<>>]

JBool(x) == [k |-> "bool", b |-> x, n |-> 0, s |-> <<>>]

JNum(x) == [k |-> "num", b |-> FALSE, n |-> x, s |-> <<>>]

JStr(x) == [k |-> "str", b |-> FALSE, n |-> 0, s |-> x]

\* Python truthiness of a JSON value
Truthy(v) ==
  CASE v.k = "bool" -> v.b
    [] v.k = "num" -> v.n # 0
    [] v.k = "str" -> v.s # <<>>
    [] OTHER -> FALSE

\* dict.get(key, default)
Get(v, default) == IF v.k = "absent" THEN default ELSE v

\* A JSON object as the verifier reads it: the two keys it looks up, and
\* whether the object holds any other key.
EmptyDict == [has_active_token |-> Absent, token |-> Absent, other |-> FALSE]

HatValues == {Absent, JBool(TRUE), JBool(FALSE)}

TokenValues == {Absent, JNull, JNum(5)} \cup {JStr(s) : s \in Strings}

\* the objects the transports deliver: any combination of the two keys, and
\* the object that holds neither but some other key (an error body)
Dicts ==
  [has_active_token : HatValues, token : TokenValues, other : {FALSE}]
  \cup {[has_active_token |-> Absent, token |-> Absent, other |-> TRUE]}

\* bool(d) of a dict: non-empty
DictTruthy(d) ==
  d.has_active_token.k # "absent" \/ d.token.k # "absent" \/ d.other

\* A value handed back by a transport: a dict, or something else with its
\* truthiness.
DictValue(d) == [isdict |-> TRUE, truthy |-> DictTruthy(d), d |-> d]

OtherValue(t) == [isdict |-> FALSE, truthy |-> t, d |-> EmptyDict]

NoValue == OtherValue(FALSE)

\* Parsed JSON documents.  shape:
\*   "undecodable"  not JSON
\*   "scalar"       null / number / boolean
\*   "seq"          list or string (supports the `in` operator)
\*   "dict"         object without a "data" member
\*   "wrapped"      object with a "data" member, whose value is `inner`
JsonDocs ==
  {[shape |-> "undecodable", inner |-> NoValue], [shape |-> "scalar", inner |-> NoValue]}
  \cup {[shape |-> "seq", inner |-> OtherValue(t)] : t \in BOOLEAN}
  \cup {[shape |-> "dict", inner |-> DictValue(d)] : d \in Dicts}
  \cup {[shape |-> "wrapped", inner |-> DictValue(d)] : d \in Dicts}
  \cup {[shape |-> "wrapped", inner |-> NoValue]}

\* --------------------------------------------- XionCLIClient._validate_token
\* _validate_token without the first-segment comparison
ValidateTokenExactOnly(result, presented) ==
  LET hat == Get(result.has_active_token, JBool(FALSE))
      stored == Get(result.token, JStr(<<>>))
  IN IF ~Truthy(hat) THEN "false"
     ELSE IF ~Truthy(stored) THEN "false"
     ELSE IF stored.k = "str" /\ stored.s = presented THEN "true"
     ELSE IF stored.k # "str" THEN "raise"
     ELSE "false"

\* _validate_token answering False for a stored token it cannot split
ValidateTokenRejectUnsplittable(result, presented) ==
  LET hat == Get(result.has_active_token, JBool(FALSE))
      stored == Get(result.token, JStr(<<>>))
  IN IF ~Truthy(hat) THEN "false"
     ELSE IF ~Truthy(stored) THEN "false"
     ELSE IF stored.k = "str" /\ stored.s = presented THEN "true"
     ELSE IF stored.k # "str" THEN "false"
     ELSE IF Split(stored.s)[1] = Split(presented)[1] THEN "true" ELSE "false"

\* "true" / "false", or "raise" when the stored token is a truthy value
\* without a split method (AttributeError).
ValidateToken(result, presented) ==
  LET hat == Get(result.has_active_token, JBool(FALSE))
      stored == Get(result.token, JStr(<<>>))
  IN IF ~Truthy(hat) THEN "false"
     ELSE IF ~Truthy(stored) THEN "false"
     ELSE IF stored.k = "str" /\ stored.s = presented THEN "true"
     ELSE IF stored.k # "str" THEN "raise"
     ELSE LET stored_parts == Split(stored.s)
              token_parts == Split(presented)
          IN IF Len(stored_parts) > 0 /\ Len(token_parts) > 0
                /\ stored_parts[1] = token_parts[1]
             THEN "true" ELSE "false"

\* ------------------------------------------ XionCLIClient._query_contract_rest
\* What one endpoint answers: a transport exception, a non-200 status, or a
\* 200 with a body.
Responses ==
  {[status |-> st, doc |-> [shape |-> "undecodable", inner |-> NoValue]] : st \in {"exc", "non200"}}
  \cup {[status |-> "ok", doc |-> doc] : doc \in JsonDocs}

EndpointCount == 3

\* an endpoint loop that returns the response object as it is
ProbeNoUnwrap(resp) ==
  IF resp.status # "ok" THEN [returned |-> FALSE, val |-> NoValue]
  ELSE IF resp.doc.shape \in {"undecodable", "scalar"} THEN [returned |-> FALSE, val |-> NoValue]
  ELSE IF resp.doc.shape = "wrapped"
  THEN [returned |-> TRUE,
        val |-> DictValue([has_active_token |-> Absent, token |-> Absent, other |-> TRUE])]
  ELSE [returned |-> TRUE, val |-> resp.doc.inner]

\* One iteration of the endpoint loop: whether it returns, and what.
Probe(resp) ==
  IF resp.status # "ok" THEN [returned |-> FALSE, val |-> NoValue]
  ELSE IF resp.doc.shape \in {"undecodable", "scalar"} THEN [returned |-> FALSE, val |-> NoValue]
  ELSE [returned |-> TRUE, val |-> resp.doc.inner]

\* ------------------------------------------- XionCLIClient._query_contract_cli
\* A key: value block printed under a "data:" header: the indented lines it
\* holds (each key at most once), and whether some indented line has no colon.
\* nested: some value is a mapping, printed on deeper indented key: value lines
YamlBlocks ==
  [hat : {"none", "true", "false"}, tok : {Absent} \cup {JStr(s) : s \in Strings},
   other : BOOLEAN, bad : BOOLEAN, nested : BOOLEAN]

NoYaml == [hat |-> "none", tok |-> Absent, other |-> FALSE, bad |-> FALSE, nested |-> FALSE]

NoDoc == [shape |-> "undecodable", inner |-> NoValue]

\* form "nospawn": the command could not be started (create_subprocess_exec
\* raises OSError)
CliRuns ==
  {[rc |-> 1, form |-> "json", doc |-> NoDoc, yaml |-> NoYaml],
   [rc |-> 0, form |-> "nospawn", doc |-> NoDoc, yaml |-> NoYaml]}
  \cup {[rc |-> 0, form |-> "json", doc |-> doc, yaml |-> NoYaml] : doc \in JsonDocs}
  \cup {[rc |-> 0, form |-> "yaml", doc |-> NoDoc, yaml |-> y] : y \in YamlBlocks}

\* The dict built from a key: value block: every value is the text after the
\* first colon, a string.  The lines of a nested mapping start with two
\* spaces as well and add their keys to the same dict.
YamlDict(y) ==
  [has_active_token |-> CASE y.hat = "true" -> JStr(TextTrue)
                          [] y.hat = "false" -> JStr(TextFalse)
                          [] OTHER -> Absent,
   token |-> y.tok,
   other |-> y.other \/ y.nested]

\* What the command's run makes of the query: an exception, or a value.
ParseCli(run) ==
  IF run.form = "nospawn" THEN [raised |-> TRUE, exc |-> "OSError", val |-> NoValue]
  ELSE IF run.rc # 0 THEN [raised |-> TRUE, exc |-> "ValueError", val |-> NoValue]
  ELSE IF run.form = "yaml" THEN
    IF run.yaml.bad THEN [raised |-> TRUE, exc |-> "ValueError", val |-> NoValue]
    ELSE [raised |-> FALSE, exc |-> "none", val |-> DictValue(YamlDict(run.yaml))]
  ELSE CASE run.doc.shape = "undecodable" -> [raised |-> TRUE, exc |-> "ValueError", val |-> NoValue]
         [] run.doc.shape = "scalar" -> [raised |-> FALSE, exc |-> "none", val |-> NoValue]
         [] run.doc.shape = "wrapped" ->
              [raised |-> FALSE, exc |-> "none",
               val |-> DictValue([has_active_token |-> Absent, token |-> Absent, other |-> TRUE])]
         [] OTHER -> [raised |-> FALSE, exc |-> "none", val |-> run.doc.inner]

\* ---------------------------------------------- XionCLIClient.verify_user_token
VerifyStart ==
  /\ vpc = "rest"
  /\ token \in Strings
  /\ attempts = <<>>
  /\ restReturned = FALSE
  /\ cliCalls = 0
  /\ cliOutcome = "none"
  /\ cliForm = "none"
  /\ source = "none"
  /\ record = EmptyDict
  /\ ret = "none"
  /\ warned = FALSE
  /\ validations = 0

\* the exceptions raised inside verify_user_token: ValueError (every endpoint
\* failed, CLI exit code or output), AttributeError (_validate_token on a
\* token without split), OSError (the command cannot be started)
ExceptionKinds == {"ValueError", "AttributeError", "OSError"}

\* a handler written `except ValueError`
CatchesValueErrorOnly(exc) == exc = "ValueError"

\* `except Exception as e` around the REST query and its validation
RestHandlerCatches(exc) == exc \in ExceptionKinds

\* `except Exception as cli_error` around the CLI fallback
CliHandlerCatches(exc) == exc \in ExceptionKinds

\* a verifier that denies when it could not determine
FailClosedResult == "false"

\* the value of the final `return True`
FailOpenResult == "true"

\* One endpoint attempt of the loop in _query_contract_rest and, when the
\* query returns or raises, what verify_user_token does with it up to its
\* next await.
RestTry ==
  /\ vpc = "rest"
  /\ Len(attempts) < EndpointCount
  /\ \E resp \in Responses :
       LET ep == Len(attempts) + 1
           out == Probe(resp)
       IN /\ attempts' = Append(attempts, ep)
          /\ restReturned' = out.returned
          /\ IF out.returned
             THEN IF out.val.isdict /\ out.val.truthy
                  THEN LET v == ValidateToken(out.val.d, token)
                       IN /\ record' = out.val.d
                          /\ source' = "rest"
                          /\ validations' = validations + 1
                          /\ IF v # "raise"
                             THEN vpc' = "done" /\ ret' = v
                             ELSE IF RestHandlerCatches("AttributeError")
                             THEN vpc' = "cli" /\ ret' = ret
                             ELSE vpc' = "done" /\ ret' = "raised"
                  ELSE /\ vpc' = "failopen"
                       /\ UNCHANGED <<record, source, ret, validations>>
             ELSE /\ IF ep < EndpointCount THEN vpc' = "rest" /\ ret' = ret
                     ELSE IF RestHandlerCatches("ValueError")
                     THEN vpc' = "cli" /\ ret' = ret
                     ELSE vpc' = "done" /\ ret' = "raised"
                  /\ UNCHANGED <<record, source, validations>>
  /\ UNCHANGED <<token, cliCalls, cliOutcome, cliForm, warned>>
  /\ UNCHANGED vOthers

\* The CLI fallback in the except branch of verify_user_token.
CliRun ==
  /\ vpc = "cli"
  /\ \E run \in CliRuns :
       LET out == ParseCli(run)
       IN /\ cliCalls' = cliCalls + 1
          /\ IF out.raised
             THEN /\ cliOutcome' = "raised"
                  /\ IF CliHandlerCatches(out.exc)
                     THEN vpc' = "failopen" /\ ret' = ret
                     ELSE vpc' = "done" /\ ret' = "raised"
                  /\ UNCHANGED <<record, source, cliForm, validations>>
             ELSE /\ cliOutcome' = "returned"
                  /\ IF out.val.isdict /\ out.val.truthy
                     THEN LET v == ValidateToken(out.val.d, token)
                          IN /\ record' = out.val.d
                             /\ source' = "cli"
                             /\ cliForm' = run.form
                             /\ validations' = validations + 1
                             /\ IF v # "raise"
                                THEN vpc' = "done" /\ ret' = v
                                ELSE IF CliHandlerCatches("AttributeError")
                                THEN vpc' = "failopen" /\ ret' = ret
                                ELSE vpc' = "done" /\ ret' = "raised"
                     ELSE /\ vpc' = "failopen"
                          /\ UNCHANGED <<record, source, ret, cliForm, validations>>
  /\ UNCHANGED <<token, attempts, restReturned, warned>>
  /\ UNCHANGED vOthers

\* The end of verify_user_token: the warning and `return True`.
FailOpen ==
  /\ vpc = "failopen"
  /\ warned' = TRUE
  /\ ret' = FailOpenResult
  /\ vpc' = "done"
  /\ UNCHANGED <<token, attempts, restReturned, cliCalls, cliOutcome, cliForm, source, record,
                 validations>>
  /\ UNCHANGED vOthers

\* ------------------------------------------ XionContractService.deduct_cv_credit
MaxAttrs == 2

MaxRetries == 4

\* the values of credits_remaining the contract reports
CreditValues == {0, 4}

\* An attribute of an emitted event, with the type of its event.  The value is
\* a decimal integer text (isint, n) or some other text.
Attrs ==
  [etype : {"wasm", "transfer"}, key : {"credits_remaining", "action"},
   isint : {TRUE}, n : CreditValues]
  \cup [etype : {"wasm", "transfer"}, key : {"credits_remaining", "action"},
        isint : {FALSE}, n : {0}]

AttrSeqs == UNION {[1..n -> Attrs] : n \in 0..MaxAttrs}

\* str(e) of the exceptions the ledger client raises, as a sequence of text
\* pieces; <<>> is the empty text of an exception raised without a message
ErrorTexts == {<<>>, <<"out of gas">>, <<"connection reset">>}

\* the exceptions raised inside deduct_cv_credit (ValueError is int()'s)
DeductExceptionKinds == {"RuntimeError", "QueryTimeoutError", "ValueError"}

\* What the chain and the signing client do in one attempt.  stage is the call
\* that raises ("none": all return), exc and msg the exception and its text;
\* settles tells whether a transaction whose wait raised is executed by the
\* chain all the same.
Scenarios ==
  [stage : {"construct", "execute"}, exc : {"RuntimeError"}, msg : ErrorTexts,
   settles : {FALSE}, logs : {<<>>}]
  \cup [stage : {"wait"}, exc : {"RuntimeError", "QueryTimeoutError"}, msg : ErrorTexts,
        settles : BOOLEAN, logs : {<<>>}]
  \cup [stage : {"none"}, exc : {"none"}, msg : {<<>>}, settles : {TRUE}, logs : AttrSeqs]

\* the attributes the scan of result.logs reads: those named credits_remaining
\* on events of type wasm
CreditAttrs(logs) ==
  SelectSeq(logs, LAMBDA a : a.etype = "wasm" /\ a.key = "credits_remaining")

\* int(attr.value) raises ValueError on a text that is no integer
ScanRaises(logs) == \E i \in 1..Len(CreditAttrs(logs)) : ~CreditAttrs(logs)[i].isint

\* credits_remaining after the scan: 0, or the last matching attribute
ScanCredits(logs) ==
  IF CreditAttrs(logs) = <<>> THEN 0
  ELSE CreditAttrs(logs)[Len(CreditAttrs(logs))].n

\* What the events of a settled transaction carry: the integer values of
\* credits_remaining on wasm events (vals), and whether a wasm event carries
\* a credits_remaining that is no integer (bad).
Emitted(logs) ==
  [vals |-> {logs[i].n : i \in {j \in 1..Len(logs) :
               logs[j].etype = "wasm" /\ logs[j].key = "credits_remaining" /\ logs[j].isint}},
   bad |-> \E i \in 1..Len(logs) :
               logs[i].etype = "wasm" /\ logs[i].key = "credits_remaining" /\ ~logs[i].isint]

NothingEmitted == [vals |-> {}, bad |-> FALSE]

\* A returned dict: the keys it holds (has_*) and their values.  raised marks
\* an exception that leaves the function in place of a dict.
SuccessOutcome(tx_hash, credits) ==
  [success |-> TRUE, has_tx |-> TRUE, tx_hash |-> tx_hash,
   has_credits |-> TRUE, credits_remaining |-> credits,
   has_error |-> FALSE, error |-> <<>>, raised |-> FALSE]

FailureOutcome(msg) ==
  [success |-> FALSE, has_tx |-> FALSE, tx_hash |-> 0,
   has_credits |-> FALSE, credits_remaining |-> 0,
   has_error |-> TRUE, error |-> msg, raised |-> FALSE]

RaisedOutcome ==
  [success |-> FALSE, has_tx |-> FALSE, tx_hash |-> 0,
   has_credits |-> FALSE, credits_remaining |-> 0,
   has_error |-> FALSE, error |-> <<>>, raised |-> TRUE]

\* a failure dict that also reports the hash of the submitted transaction
FailureWithHash(msg, tx_hash) ==
  [success |-> FALSE, has_tx |-> TRUE, tx_hash |-> tx_hash,
   has_credits |-> FALSE, credits_remaining |-> 0,
   has_error |-> TRUE, error |-> msg, raised |-> FALSE]

\* the message of int()'s ValueError
IntErrorText == <<"invalid literal for int() with base 10">>

\* a handler written `except RuntimeError`
CatchesRuntimeErrorOnly(exc) == exc = "RuntimeError"

\* `except Exception as e` around the whole body of deduct_cv_credit
DeductCatches(exc) == exc \in DeductExceptionKinds

\* a handler that adds tx.tx_hash once contract.execute has returned
HandlerOutcomeKeepsHash(stage, msg, tx_hash) ==
  IF stage \in {"wait", "none"} THEN FailureWithHash(msg, tx_hash) ELSE FailureOutcome(msg)

\* the failure dict built by the handler
HandlerOutcome(stage, msg, tx_hash) == FailureOutcome(msg)

\* deduct_cv_credit: the outcome of one attempt whose transaction, if it is
\* submitted, has hash tx_hash.
DeductCvCredit(scn, tx_hash) ==
  IF scn.stage # "none"
  THEN IF DeductCatches(scn.exc) THEN HandlerOutcome(scn.stage, scn.msg, tx_hash)
       ELSE RaisedOutcome
  ELSE IF ScanRaises(scn.logs)
  THEN IF DeductCatches("ValueError") THEN HandlerOutcome(scn.stage, IntErrorText, tx_hash)
       ELSE RaisedOutcome
  ELSE SuccessOutcome(tx_hash, ScanCredits(scn.logs))

\* whether the attempt broadcasts a transaction (contract.execute returned)
Submits(scn) == scn.stage \in {"wait", "none"}

\* whether the chain executes the attempt's transaction
Settles(scn) == Submits(scn) /\ scn.settles

\* ------------------------------- XionContractService.deduct_cv_credit_with_retry
DefaultMaxRetries == 3

Digit(n) ==
  CASE n = 0 -> "0" [] n = 1 -> "1" [] n = 2 -> "2" [] n = 3 -> "3" [] n = 4 -> "4"
    [] n = 5 -> "5" [] n = 6 -> "6" [] n = 7 -> "7" [] n = 8 -> "8" [] n = 9 -> "9"

\* the decimal digits of a natural number, as the f-string formats it
RECURSIVE Decimal(_)
Decimal(n) == IF n < 10 THEN <<Digit(n)>> ELSE Decimal(n \div 10) \o <<Digit(n % 10)>>

\* a message that counts the attempts from zero
FailedAfterTextFromZero(n) ==
  <<"Failed after ">> \o Decimal(IF n = 0 THEN 0 ELSE n - 1) \o <<" attempts">>

\* f"Failed after {max_retries} attempts"
FailedAfterText(n) == <<"Failed after ">> \o Decimal(n) \o <<" attempts">>

RECURSIVE Pow2(_)
Pow2(n) == IF n = 0 THEN 1 ELSE 2 * Pow2(n - 1)

\* a linear backoff
WaitTimeLinear(i) == i + 1

\* wait_time = 2 ** attempt
WaitTime(i) == Pow2(i)

\* a loop that runs one iteration more
InRangeInclusive(i, n) == i <= n

\* a loop without a budget
InRangeAlways(i, n) == TRUE

\* for attempt in range(max_retries)
InRange(i, n) == i < n

\* a backoff that also sleeps after the last attempt
ShouldSleepAlways(i, n) == TRUE

\* if attempt < max_retries - 1
ShouldSleep(i, n) == i + 1 < n

\* result.get("success", False) of a returned dict; an exception that left
\* deduct_cv_credit is caught by the loop's own handler and counts as a failure
IsSuccess(result) == ~result.raised /\ result.success

NoOutcome == FailureOutcome(<<>>)

NoScenario == [stage |-> "none", exc |-> "none", msg |-> <<>>]

DeductStart ==
  /\ dpc = "attempt"
  /\ max_retries \in 0..MaxRetries
  /\ attempt = 0
  /\ calls = 0
  /\ sleeps = <<>>
  /\ submitted = 0
  /\ settled = 0
  /\ lastOutcome = NoOutcome
  /\ dret = NoOutcome
  /\ history = <<>>
  /\ lastScn = NoScenario
  /\ lastEmitted = NothingEmitted
  /\ observed = 0

\* One iteration of the retry loop up to its await of asyncio.sleep, to the
\* next iteration or to the return: the call of deduct_cv_credit and the test
\* of its outcome.  Calls are capped one above the largest budget.
DeductAttempt ==
  /\ dpc = "attempt"
  /\ InRange(attempt, max_retries)
  /\ calls <= MaxRetries
  /\ \E scn \in Scenarios :
       LET result == DeductCvCredit(scn, submitted + 1)
       IN /\ calls' = calls + 1
          /\ submitted' = IF Submits(scn) THEN submitted + 1 ELSE submitted
          /\ settled' = IF Settles(scn) THEN settled + 1 ELSE settled
          /\ lastOutcome' = result
          /\ history' = Append(history, IsSuccess(result))
          /\ lastScn' = [stage |-> scn.stage, exc |-> scn.exc, msg |-> scn.msg]
          /\ lastEmitted' = Emitted(scn.logs)
          /\ observed' = IF observed = 0 /\ scn.stage = "none" THEN submitted + 1 ELSE observed
          /\ IF IsSuccess(result)
             THEN /\ dret' = result
                  /\ dpc' = "done"
                  /\ attempt' = attempt
             ELSE IF ShouldSleep(attempt, max_retries)
             THEN /\ dpc' = "sleep"
                  /\ UNCHANGED <<dret, attempt>>
             ELSE /\ dpc' = "attempt"
                  /\ attempt' = attempt + 1
                  /\ dret' = dret
  /\ UNCHANGED <<max_retries, sleeps>>
  /\ UNCHANGED dOthers

\* await asyncio.sleep(wait_time), then the next iteration
DeductSleep ==
  /\ dpc = "sleep"
  /\ sleeps' = Append(sleeps, WaitTime(attempt))
  /\ attempt' = attempt + 1
  /\ dpc' = "attempt"
  /\ UNCHANGED <<max_retries, calls, submitted, settled, lastOutcome, dret, history,
                 lastScn, lastEmitted, observed>>
  /\ UNCHANGED dOthers

\* the loop is over: the return after it
DeductExhausted ==
  /\ dpc = "attempt"
  /\ ~InRange(attempt, max_retries)
  /\ dret' = FailureOutcome(FailedAfterText(max_retries))
  /\ dpc' = "done"
  /\ UNCHANGED <<max_retries, attempt, calls, sleeps, submitted, settled, lastOutcome,
                 history, lastScn, lastEmitted, observed>>
  /\ UNCHANGED dOthers

\* ---------------------------------- XionContractService.verify_user_token
\* ":".join of the first three parts
JoinFirstThree(parts) == parts[1] \o <<":">> \o parts[2] \o <<":">> \o parts[3]

\* The decision on a presented token once contract.query returned `result`.
\* An AttributeError (split of a stored token that is no string) is caught by
\* the outer handler, whose message test fails: False.
ServiceValidate(result, presented) ==
  LET token_parts == Split(presented)
  IN IF Len(token_parts) # 3 /\ Len(token_parts) < 5 THEN "false"
     ELSE LET encrypted_token == IF Len(token_parts) = 3 THEN presented
                                 ELSE JoinFirstThree(token_parts)
              hat == Get(result.has_active_token, JBool(FALSE))
              stored == Get(result.token, JNull)
          IN IF ~Truthy(hat) THEN "false"
             ELSE IF stored.k = "str" /\ stored.s = encrypted_token THEN "true"
             ELSE IF stored.k # "str" THEN "false"
             ELSE IF Split(stored.s)[1] = Split(encrypted_token)[1] THEN "true"
             ELSE "false"

\* what __init__ stores: contract address, RPC URL, wallet
Configured == [contract_address |-> "xion1contract", rpc_url |-> "rpc", wallet |-> "admin"]

\* presented tokens: the short strings and some of four and of five and more
\* segments
ServiceTokens ==
  Strings \cup {<<"a", ":", ":", ":">>, <<"a", ":", ":", ":", ":">>,
                <<"a", ":", "b", ":", ":", ":", "a">>, <<"b", ":", ":", ":", ":", ":">>}

\* the pieces of an exception's text; `x in str(e)` is a test on the pieces
NoSuchFile == "No such file or directory: "

\* the address of another account
UserAddress == "xion1user"

\* addresses that carry the "xion1" prefix
Xion1Pieces == {Configured.contract_address, UserAddress}

QueryTexts ==
  {<<>>, <<"connection reset">>, <<NoSuchFile, "wallet.json">>,
   <<NoSuchFile, UserAddress>>, <<NoSuchFile, Configured.contract_address>>,
   <<"account ", UserAddress, " not found">>}

\* self.contract_address in str(e)
NamesContract(msg) == \E i \in 1..Len(msg) : msg[i] = Configured.contract_address

\* "No such file or directory" in str(e) and "xion1" in str(e)
FileIssueText(msg) ==
  /\ \E i \in 1..Len(msg) : msg[i] = NoSuchFile
  /\ \E i \in 1..Len(msg) : msg[i] \in Xion1Pieces

\* what contract.query does: returns a record or raises
QueryOutcomes ==
  {[raised |-> FALSE, exc |-> "none", msg |-> <<>>, result |-> d] : d \in Dicts}
  \cup {[raised |-> TRUE, exc |-> x, msg |-> m, result |-> EmptyDict] :
          x \in {"FileNotFoundError", "RuntimeError"}, m \in QueryTexts}

NoQuery == [raised |-> FALSE, exc |-> "none", msg |-> <<>>, result |-> EmptyDict]

ServiceStart ==
  /\ spc = "start" /\ sToken \in ServiceTokens /\ sQuery = NoQuery /\ sRet = "none"

\* result = contract.query(query_msg)
ServiceQuery ==
  /\ spc = "start"
  /\ \E q \in QueryOutcomes :
       /\ sQuery' = q
       /\ spc' = IF ~q.raised THEN "returned"
                 ELSE IF q.exc = "FileNotFoundError" THEN "fileerror" ELSE "raised"
  /\ UNCHANGED <<sToken, sRet>>
  /\ UNCHANGED sOthers

\* except FileNotFoundError: True when the text names the contract address,
\* else re-raise
ServiceFileError ==
  /\ spc = "fileerror"
  /\ IF NamesContract(sQuery.msg)
     THEN spc' = "done" /\ sRet' = "true"
     ELSE spc' = "raised" /\ sRet' = sRet
  /\ UNCHANGED <<sToken, sQuery>>
  /\ UNCHANGED sOthers

\* the format test and the comparison with the stored token
ServiceDecide ==
  /\ spc = "returned"
  /\ sRet' = ServiceValidate(sQuery.result, sToken)
  /\ spc' = "done"
  /\ UNCHANGED <<sToken, sQuery>>
  /\ UNCHANGED sOthers

\* the outer except Exception
ServiceHandler ==
  /\ spc = "raised"
  /\ sRet' = IF FileIssueText(sQuery.msg) THEN "true" ELSE "false"
  /\ spc' = "done"
  /\ UNCHANGED <<sToken, sQuery>>
  /\ UNCHANGED sOthers

\* ------------------------------- auth/dependencies.py verify_xion_transaction
\* the public keys a request presents in x-public-key
PublicKeys == {<<"a">>, <<"b">>}

\* values of the "sender" and "status" members of a transaction
SenderValues == {Absent, JNull} \cup {JStr(k) : k \in PublicKeys}

StatusValues == {Absent, JStr(<<"confirmed">>), JStr(<<"pending">>), JBool(TRUE)}

\* bodies of an answer: no JSON, JSON that is no object, or a transaction
Bodies ==
  {[shape |-> sh, sender |-> Absent, status |-> Absent] : sh \in {"invalid", "list"}}
  \cup {[shape |-> "dict", sender |-> sn, status |-> st] :
          sn \in SenderValues, st \in StatusValues}

\* what client.get does: raises, or answers with a status code and a body
Answers ==
  {[raised |-> TRUE, code |-> 0, body |-> [shape |-> "invalid", sender |-> Absent, status |-> Absent]]}
  \cup {[raised |-> FALSE, code |-> c, body |-> b] : c \in {200, 404, 500}, b \in Bodies}

NoAnswer ==
  [raised |-> FALSE, code |-> 0, body |-> [shape |-> "invalid", sender |-> Absent, status |-> Absent]]

\* XionVerificationData built from the headers
VerificationData(key) ==
  [transaction_hash |-> <<"h">>, public_key |-> key, session_token |-> <<"s">>]

NoData == [transaction_hash |-> <<>>, public_key |-> <<>>, session_token |-> <<>>]

Returned(key) == [kind |-> "returned", status |-> 0, data |-> VerificationData(key)]

Raised(status) == [kind |-> "raised", status |-> status, data |-> NoData]

NoOut32 == [kind |-> "none", status |-> 0, data |-> NoData]

\* a status test by truthiness
IsConfirmedTruthy(transaction_data) == Truthy(Get(transaction_data.status, JNull))

\* transaction_data.get("status") == "confirmed"
IsConfirmed(transaction_data) == Get(transaction_data.status, JNull) = JStr(<<"confirmed">>)

\* transaction_data.get("sender") == x_public_key
SenderIs(transaction_data, key) == Get(transaction_data.sender, JNull) = JStr(key)

\* The body of the try block once client.get answered: the exception it
\* raises ("none" when it returns) and the status an HTTPException carries.
Examine(answer, key) ==
  IF answer.code # 200 THEN [exc |-> "HTTPException", status |-> 401]
  ELSE IF answer.body.shape = "invalid" THEN [exc |-> "JSONDecodeError", status |-> 0]
  ELSE IF answer.body.shape # "dict" THEN [exc |-> "AttributeError", status |-> 0]
  ELSE IF ~SenderIs(answer.body, key) THEN [exc |-> "HTTPException", status |-> 401]
  ELSE IF ~IsConfirmed(answer.body) THEN [exc |-> "HTTPException", status |-> 401]
  ELSE [exc |-> "none", status |-> 0]

\* except HTTPException: raise
Reraises(exc) == exc = "HTTPException"

TxStart == tpc = "start" /\ tKey \in PublicKeys /\ tAnswer = NoAnswer /\ tOut = NoOut32

\* await client.get(...)
TxGet ==
  /\ tpc = "start"
  /\ \E a \in Answers :
       /\ tAnswer' = a
       /\ tpc' = IF a.raised THEN "error" ELSE "answered"
  /\ UNCHANGED <<tKey, tOut>>
  /\ UNCHANGED tOthers

\* the checks on the answer
TxCheck ==
  /\ tpc = "answered"
  /\ LET r == Examine(tAnswer, tKey)
     IN IF r.exc = "none" THEN tpc' = "done" /\ tOut' = Returned(tKey)
        ELSE IF Reraises(r.exc) THEN tpc' = "done" /\ tOut' = Raised(r.status)
        ELSE tpc' = "error" /\ tOut' = tOut
  /\ UNCHANGED <<tKey, tAnswer>>
  /\ UNCHANGED tOthers

\* except Exception: HTTPException(500)
TxError ==
  /\ tpc = "error"
  /\ tOut' = Raised(500)
  /\ tpc' = "done"
  /\ UNCHANGED <<tKey, tAnswer>>
  /\ UNCHANGED tOthers

\* ------------------------------------- one record over every delivery
\* What verify_user_token makes of the value a query handed back: the
\* decision of _validate_token ("raise" when it raises), or "open" when the
\* value is no non-empty dict and control falls through to the final return.
DecideOn(val, presented) ==
  IF val.isdict /\ val.truthy THEN ValidateToken(val.d, presented) ELSE "open"

\* the text a key: value block prints for a value: a string as it is (the
\* empty string as two quotes), null and numbers as their literal
YamlText(v) ==
  CASE v.k = "str" -> IF v.s = <<>> THEN JStr(<<"\"", "\"">>) ELSE v
    [] v.k = "null" -> JStr(<<"n", "u", "l", "l">>)
    [] v.k = "num" -> JStr(Decimal(v.n))
    [] OTHER -> Absent

\* the key: value block of a record
YamlOf(d) ==
  [hat |-> CASE d.has_active_token.k = "bool" /\ d.has_active_token.b -> "true"
             [] d.has_active_token.k = "bool" -> "false"
             [] OTHER -> "none",
   tok |-> YamlText(d.token), other |-> d.other, bad |-> FALSE, nested |-> FALSE]

NoDecisions ==
  [rest |-> "none", restWrapped |-> "none", cliJson |-> "none", cliWrapped |-> "none",
   cliYaml |-> "none", service |-> "none"]

NoUsed == [rest |-> NoValue, restWrapped |-> NoValue]

CompareStart ==
  /\ cpc = "rest"
  /\ cRecord \in Dicts
  /\ cToken \in Strings
  /\ cDecision = NoDecisions
  /\ cUsed = NoUsed

\* an endpoint answers 200 with the record as the body
DeliverRest ==
  /\ cpc = "rest"
  /\ LET out == Probe([status |-> "ok", doc |-> [shape |-> "dict", inner |-> DictValue(cRecord)]])
     IN /\ cDecision' = [cDecision EXCEPT !.rest = DecideOn(out.val, cToken)]
        /\ cUsed' = [cUsed EXCEPT !.rest = out.val]
  /\ cpc' = "restWrapped"
  /\ UNCHANGED <<cRecord, cToken>>
  /\ UNCHANGED cOthers

\* an endpoint answers 200 with {"data": record}
DeliverRestWrapped ==
  /\ cpc = "restWrapped"
  /\ LET out == Probe([status |-> "ok", doc |-> [shape |-> "wrapped", inner |-> DictValue(cRecord)]])
     IN /\ cDecision' = [cDecision EXCEPT !.restWrapped = DecideOn(out.val, cToken)]
        /\ cUsed' = [cUsed EXCEPT !.restWrapped = out.val]
  /\ cpc' = "cliJson"
  /\ UNCHANGED <<cRecord, cToken>>
  /\ UNCHANGED cOthers

\* the command prints the record as JSON
DeliverCliJson ==
  /\ cpc = "cliJson"
  /\ LET out == ParseCli([rc |-> 0, form |-> "json", yaml |-> NoYaml,
                          doc |-> [shape |-> "dict", inner |-> DictValue(cRecord)]])
     IN cDecision' = [cDecision EXCEPT !.cliJson = DecideOn(out.val, cToken)]
  /\ cpc' = "cliWrapped"
  /\ UNCHANGED <<cRecord, cToken, cUsed>>
  /\ UNCHANGED cOthers

\* the command prints {"data": record}
DeliverCliWrapped ==
  /\ cpc = "cliWrapped"
  /\ LET out == ParseCli([rc |-> 0, form |-> "json", yaml |-> NoYaml,
                          doc |-> [shape |-> "wrapped", inner |-> DictValue(cRecord)]])
     IN cDecision' = [cDecision EXCEPT !.cliWrapped = DecideOn(out.val, cToken)]
  /\ cpc' = "cliYaml"
  /\ UNCHANGED <<cRecord, cToken, cUsed>>
  /\ UNCHANGED cOthers

\* the command prints the record as a key: value block under "data:"
DeliverCliYaml ==
  /\ cpc = "cliYaml"
  /\ LET out == ParseCli([rc |-> 0, form |-> "yaml", yaml |-> YamlOf(cRecord), doc |-> NoDoc])
     IN cDecision' = [cDecision EXCEPT !.cliYaml = DecideOn(out.val, cToken)]
  /\ cpc' = "service"
  /\ UNCHANGED <<cRecord, cToken, cUsed>>
  /\ UNCHANGED cOthers

\* contract.query of XionContractService returns the record
DeliverService ==
  /\ cpc = "service"
  /\ cDecision' = [cDecision EXCEPT !.service = ServiceValidate(cRecord, cToken)]
  /\ cpc' = "done"
  /\ UNCHANGED <<cRecord, cToken, cUsed>>
  /\ UNCHANGED cOthers

\* --------------------------------------------- one run of the CLI fallback
NoRun == [rc |-> 0, form |-> "nospawn", doc |-> NoDoc, yaml |-> NoYaml]

NoOut == [raised |-> FALSE, exc |-> "none", val |-> NoValue]

CliStart ==
  /\ qpc = "run"
  /\ qRun \in CliRuns
  /\ qOut = NoOut
  /\ qTreat = "none"

\* result = await self._query_contract_cli(user_address)
CliQuery ==
  /\ qpc = "run"
  /\ qOut' = ParseCli(qRun)
  /\ qpc' = "after"
  /\ UNCHANGED <<qRun, qTreat>>
  /\ UNCHANGED qOthers

\* what verify_user_token does next: an exception ends the fallback attempt
\* ("failed"), a non-empty dict is validated, anything else falls through
CliAfter ==
  /\ qpc = "after"
  /\ qTreat' = IF qOut.raised
               THEN IF CliHandlerCatches(qOut.exc) THEN "failed" ELSE "raised"
               ELSE IF qOut.val.isdict /\ qOut.val.truthy THEN "validated" ELSE "fellthrough"
  /\ qpc' = "done"
  /\ UNCHANGED <<qRun, qOut>>
  /\ UNCHANGED qOthers

\* ------------------------------------------------ routers/ai.py cv_analysis
\* what deduct_cv_credit hands to the router: a success or a failure outcome
RequestOutcomes ==
  {SuccessOutcome(1, c) : c \in CreditValues}
  \cup {FailureOutcome(m) : m \in ErrorTexts \cup {FailedAfterText(DefaultMaxRetries)}}

\* the keys of CVAnalysis.dict()
CVAnalysisKeys == {"experiences", "skills", "professionalSummary"}

\* the response status of an exception raised in the try block of
\* cv_analysis: the clause for ValueError, then `except Exception`, which also
\* takes the HTTPException(400) raised in the block (no step of the block
\* raises httpx.HTTPStatusError, the first clause)
HandlerStatus(exc) == IF exc = "ValueError" THEN 422 ELSE 500

\* str(e) of HTTPException(400, detail): "400: <detail>", or "" in library
\* versions whose exception keeps no args
HttpExceptionTexts(detail) == {<<"400: ">> \o detail, <<>>}

\* deduction_result.get('error', 'Unknown error')
ErrorOf(o) == IF o.has_error THEN o.error ELSE <<"Unknown error">>

\* a health check that reports the service as unavailable
HealthCheckUnavailable == [status |-> 503, body |-> <<"status", "unavailable">>]

\* GET /health
HealthCheck == [status |-> 200, body |-> <<"status", "ok">>]

NoHealth == [status |-> 0, body |-> <<>>]

RequestStart ==
  /\ rpc = "validate"
  /\ rMode \in {"development", "production"}
  /\ rWellFormed \in BOOLEAN
  /\ rVerified = FALSE
  /\ rAi = "none"
  /\ rDeducts = 0
  /\ rDeduction = NoOutcome
  /\ rStatus = 0
  /\ rDetail = <<>>
  /\ rBody = {}
  /\ health = NoHealth

\* the request body is parsed into CVAnalysisRequest; a body that does not fit
\* gets the 422 of validation_exception_handler
ParseBody ==
  /\ rpc = "validate"
  /\ IF rWellFormed
     THEN rpc' = "auth" /\ UNCHANGED <<rStatus, rDetail>>
     ELSE rpc' = "done" /\ rStatus' = 422 /\ rDetail' = <<"Validation error: ">>
  /\ UNCHANGED <<rMode, rWellFormed, rVerified, rAi, rDeducts, rDeduction, rBody, health>>
  /\ UNCHANGED rOthers

\* the credential dependency: the mock in development mode, the verifier
\* otherwise, which returns the credentials or fails the request with 401
Authenticate ==
  /\ rpc = "auth"
  /\ \E ok \in BOOLEAN :
       IF ok \/ rMode = "development"
       THEN rVerified' = TRUE /\ rpc' = "process" /\ UNCHANGED <<rStatus, rDetail>>
       ELSE rVerified' = FALSE /\ rpc' = "done" /\ rStatus' = 401
            /\ rDetail' = <<"Invalid blockchain credentials">>
  /\ UNCHANGED <<rMode, rWellFormed, rAi, rDeducts, rDeduction, rBody, health>>
  /\ UNCHANGED rOthers

\* validate_input, get_rules and rewrite_content up to its await of the AI
\* client: validate_input may raise ValueError, generate_prompt (outside the
\* try block of rewrite_content) any exception
Process ==
  /\ rpc = "process"
  /\ \E step \in {"ok", "ValueError", "AttributeError"}, msg \in ErrorTexts :
       IF step = "ok"
       THEN rpc' = "ai" /\ UNCHANGED <<rStatus, rDetail>>
       ELSE /\ rpc' = "done"
            /\ rStatus' = HandlerStatus(step)
            /\ rDetail' = IF step = "ValueError" THEN msg
                          ELSE <<"Internal server error: ">> \o msg
  /\ UNCHANGED <<rMode, rWellFormed, rVerified, rAi, rDeducts, rDeduction, rBody, health>>
  /\ UNCHANGED rOthers

\* The AI call returns and rewrite_content with it: the enhanced content
\* ("ok"), or the fallback content when the call raised, brought no tool call
\* or did not validate ("failed").  Then CVAnalysis(...) is built in the
\* router, which may raise pydantic's ValidationError, a ValueError.
AiReturns ==
  /\ rpc = "ai"
  /\ \E ai \in {"ok", "failed"}, fits \in BOOLEAN, msg \in ErrorTexts :
       /\ rAi' = ai
       /\ IF fits
          THEN rpc' = "deduct" /\ UNCHANGED <<rStatus, rDetail>>
          ELSE rpc' = "done" /\ rStatus' = HandlerStatus("ValueError") /\ rDetail' = msg
  /\ UNCHANGED <<rMode, rWellFormed, rVerified, rDeducts, rDeduction, rBody, health>>
  /\ UNCHANGED rOthers

\* await deduct_cv_credit(...), the test of its outcome and the response
Deduct ==
  /\ rpc = "deduct"
  /\ \E o \in RequestOutcomes :
       /\ rDeducts' = rDeducts + 1
       /\ rDeduction' = o
       /\ IF o.success
          THEN /\ rStatus' = 200
               /\ rBody' = CVAnalysisKeys
               /\ rDetail' = rDetail
          ELSE \E text \in HttpExceptionTexts(<<"Failed to deduct credit: ">> \o ErrorOf(o)) :
               /\ rStatus' = HandlerStatus("HTTPException")
               /\ rDetail' = <<"Internal server error: ">> \o text
               /\ rBody' = rBody
  /\ rpc' = "done"
  /\ UNCHANGED <<rMode, rWellFormed, rVerified, rAi, health>>
  /\ UNCHANGED rOthers

\* GET /health is answered, whatever the request is doing
Health ==
  /\ rpc # "idle"
  /\ health' = HealthCheck
  /\ UNCHANGED <<rpc, rMode, rWellFormed, rVerified, rAi, rDeducts, rDeduction,
                 rStatus, rDetail, rBody>>
  /\ UNCHANGED rOthers

\* ------------------------------------------------------ concurrent calls
\* two calls in flight on the same XionCLIClient / XionContractService
Procs == {1, 2}

\* a loop variable kept on the shared object, one for all calls
SlotShared(p) == 1

\* The cell that holds a call's loop variable (the endpoint of the for loop of
\* _query_contract_rest, attempt of deduct_cv_credit_with_retry): a local of
\* the call's own frame.
Slot(p) == p

\* the token every concurrent verify call presents
SampleToken == <<"a">>

\* endpoint answers: an exception, an active record with the token, an
\* inactive record
SampleResponses ==
  {[status |-> "exc", doc |-> NoDoc],
   [status |-> "ok", doc |-> [shape |-> "dict", inner |->
      DictValue([has_active_token |-> JBool(TRUE), token |-> JStr(SampleToken), other |-> FALSE])]],
   [status |-> "ok", doc |-> [shape |-> "wrapped", inner |->
      DictValue([has_active_token |-> JBool(FALSE), token |-> JStr(SampleToken), other |-> FALSE])]]}

\* command runs: a failure, and the same two records as JSON
SampleRuns ==
  {[rc |-> 1, form |-> "json", doc |-> NoDoc, yaml |-> NoYaml],
   [rc |-> 0, form |-> "json", yaml |-> NoYaml, doc |-> [shape |-> "dict", inner |->
      DictValue([has_active_token |-> JBool(TRUE), token |-> JStr(SampleToken), other |-> FALSE])]],
   [rc |-> 0, form |-> "json", yaml |-> NoYaml, doc |-> [shape |-> "dict", inner |->
      DictValue([has_active_token |-> JBool(FALSE), token |-> JStr(SampleToken), other |-> FALSE])]]}

\* deduct attempts: execute raises, or the transaction settles
SampleScenarios ==
  {[stage |-> "execute", exc |-> "RuntimeError", msg |-> <<"out of gas">>,
    settles |-> FALSE, logs |-> <<>>],
   [stage |-> "none", exc |-> "none", msg |-> <<>>, settles |-> TRUE, logs |-> <<>>]}

ConcStart ==
  /\ config = Configured
  /\ pKind \in [Procs -> {"verify", "deduct"}]
  /\ ppc = [p \in Procs |-> IF pKind[p] = "verify" THEN "rest" ELSE "attempt"]
  /\ pIndex = [p \in Procs |-> 0]
  /\ pLog = [p \in Procs |-> <<>>]
  /\ pSleeps = [p \in Procs |-> <<>>]
  /\ pRet = [p \in Procs |-> "none"]

\* one endpoint of a verify call's loop
ConcRestTry ==
  \E p \in Procs :
    /\ ppc[p] = "rest"
    /\ pIndex[Slot(p)] < EndpointCount
    /\ \E resp \in SampleResponses :
         LET out == Probe(resp)
             v == DecideOn(out.val, SampleToken)
         IN IF out.returned
            THEN /\ pLog' = [pLog EXCEPT ![p] = Append(@, v)]
                 /\ pRet' = [pRet EXCEPT ![p] = v]
                 /\ ppc' = [ppc EXCEPT ![p] = "done"]
                 /\ pIndex' = pIndex
            ELSE /\ pLog' = [pLog EXCEPT ![p] = Append(@, "fail")]
                 /\ pIndex' = [pIndex EXCEPT ![Slot(p)] = @ + 1]
                 /\ UNCHANGED <<pRet, ppc>>
    /\ UNCHANGED <<config, pKind, pSleeps>>
    /\ UNCHANGED pOthers

\* the endpoint loop is over: the handler starts the CLI fallback
ConcRestExhausted ==
  \E p \in Procs :
    /\ ppc[p] = "rest"
    /\ pIndex[Slot(p)] >= EndpointCount
    /\ ppc' = [ppc EXCEPT ![p] = "cli"]
    /\ UNCHANGED <<config, pKind, pIndex, pLog, pSleeps, pRet>>
    /\ UNCHANGED pOthers

\* the CLI fallback of a verify call and the return
ConcCliRun ==
  \E p \in Procs :
    /\ ppc[p] = "cli"
    /\ \E run \in SampleRuns :
         LET out == ParseCli(run)
             v == DecideOn(out.val, SampleToken)
         IN IF out.raised
            THEN /\ pLog' = [pLog EXCEPT ![p] = Append(@, "fail")]
                 /\ pRet' = [pRet EXCEPT ![p] = FailOpenResult]
            ELSE /\ pLog' = [pLog EXCEPT ![p] = Append(@, v)]
                 /\ pRet' = [pRet EXCEPT ![p] = v]
    /\ ppc' = [ppc EXCEPT ![p] = "done"]
    /\ UNCHANGED <<config, pKind, pIndex, pSleeps>>
    /\ UNCHANGED pOthers

\* one iteration of a deduct call's retry loop
ConcDeductAttempt ==
  \E p \in Procs :
    /\ ppc[p] = "attempt"
    /\ InRange(pIndex[Slot(p)], DefaultMaxRetries)
    /\ \E scn \in SampleScenarios :
         LET result == DeductCvCredit(scn, 1)
         IN IF IsSuccess(result)
            THEN /\ pLog' = [pLog EXCEPT ![p] = Append(@, "ok")]
                 /\ pRet' = [pRet EXCEPT ![p] = "success"]
                 /\ ppc' = [ppc EXCEPT ![p] = "done"]
                 /\ pIndex' = pIndex
            ELSE /\ pLog' = [pLog EXCEPT ![p] = Append(@, "fail")]
                 /\ pRet' = pRet
                 /\ IF ShouldSleep(pIndex[Slot(p)], DefaultMaxRetries)
                    THEN ppc' = [ppc EXCEPT ![p] = "sleep"] /\ pIndex' = pIndex
                    ELSE ppc' = ppc /\ pIndex' = [pIndex EXCEPT ![Slot(p)] = @ + 1]
    /\ UNCHANGED <<config, pKind, pSleeps>>
    /\ UNCHANGED pOthers

\* a deduct call's backoff sleep
ConcDeductSleep ==
  \E p \in Procs :
    /\ ppc[p] = "sleep"
    /\ pSleeps' = [pSleeps EXCEPT ![p] = Append(@, WaitTime(pIndex[Slot(p)]))]
    /\ pIndex' = [pIndex EXCEPT ![Slot(p)] = @ + 1]
    /\ ppc' = [ppc EXCEPT ![p] = "attempt"]
    /\ UNCHANGED <<config, pKind, pLog, pRet>>
    /\ UNCHANGED pOthers

\* a deduct call's return after the loop
ConcDeductExhausted ==
  \E p \in Procs :
    /\ ppc[p] = "attempt"
    /\ ~InRange(pIndex[Slot(p)], DefaultMaxRetries)
    /\ pRet' = [pRet EXCEPT ![p] = "failure"]
    /\ ppc' = [ppc EXCEPT ![p] = "done"]
    /\ UNCHANGED <<config, pKind, pIndex, pLog, pSleeps>>
    /\ UNCHANGED pOthers

\* ------------------------------------------------------------ specifications
\* no verification under way
VerifyIdle ==
  /\ vpc = "idle" /\ token = <<>> /\ attempts = <<>> /\ restReturned = FALSE
  /\ cliCalls = 0 /\ cliOutcome = "none" /\ cliForm = "none" /\ source = "none"
  /\ record = EmptyDict /\ ret = "none" /\ warned = FALSE /\ validations = 0

\* no deduction under way
DeductIdle ==
  /\ dpc = "idle" /\ max_retries = DefaultMaxRetries /\ attempt = 0 /\ calls = 0
  /\ sleeps = <<>> /\ submitted = 0 /\ settled = 0
  /\ lastOutcome = NoOutcome /\ dret = NoOutcome /\ history = <<>>
  /\ lastScn = NoScenario /\ lastEmitted = NothingEmitted /\ observed = 0

\* no comparison under way
CompareIdle ==
  /\ cpc = "idle" /\ cRecord = EmptyDict /\ cToken = <<>>
  /\ cDecision = NoDecisions /\ cUsed = NoUsed

\* no CLI run under way
CliIdle == qpc = "idle" /\ qRun = NoRun /\ qOut = NoOut /\ qTreat = "none"

\* no request under way
RequestIdle ==
  /\ rpc = "idle" /\ rMode = "development" /\ rWellFormed = TRUE /\ rVerified = FALSE
  /\ rAi = "none" /\ rDeducts = 0 /\ rDeduction = NoOutcome /\ rStatus = 0
  /\ rDetail = <<>> /\ rBody = {} /\ health = NoHealth

\* no concurrent calls under way
ConcIdle ==
  /\ config = Configured /\ pKind = [p \in Procs |-> "verify"]
  /\ ppc = [p \in Procs |-> "idle"] /\ pIndex = [p \in Procs |-> 0]
  /\ pLog = [p \in Procs |-> <<>>] /\ pSleeps = [p \in Procs |-> <<>>]
  /\ pRet = [p \in Procs |-> "none"]

\* no service verification under way
ServiceIdle == spc = "idle" /\ sToken = <<>> /\ sQuery = NoQuery /\ sRet = "none"

\* no transaction verification under way
TxIdle == tpc = "idle" /\ tKey = <<>> /\ tAnswer = NoAnswer /\ tOut = NoOut32

VerifyInit == VerifyStart /\ DeductIdle /\ CompareIdle /\ CliIdle /\ RequestIdle /\ ConcIdle /\ ServiceIdle /\ TxIdle

DeductInit == DeductStart /\ VerifyIdle /\ CompareIdle /\ CliIdle /\ RequestIdle /\ ConcIdle /\ ServiceIdle /\ TxIdle

CompareInit == CompareStart /\ VerifyIdle /\ DeductIdle /\ CliIdle /\ RequestIdle /\ ConcIdle /\ ServiceIdle /\ TxIdle

CliInit == CliStart /\ VerifyIdle /\ DeductIdle /\ CompareIdle /\ RequestIdle /\ ConcIdle /\ ServiceIdle /\ TxIdle

RequestInit == RequestStart /\ VerifyIdle /\ DeductIdle /\ CompareIdle /\ CliIdle /\ ConcIdle /\ ServiceIdle /\ TxIdle

ConcInit == ConcStart /\ VerifyIdle /\ DeductIdle /\ CompareIdle /\ CliIdle /\ RequestIdle /\ ServiceIdle /\ TxIdle

ServiceInit ==
  /\ ServiceStart /\ VerifyIdle /\ DeductIdle /\ CompareIdle /\ CliIdle /\ RequestIdle
  /\ ConcIdle /\ TxIdle

TxInit ==
  /\ TxStart /\ VerifyIdle /\ DeductIdle /\ CompareIdle /\ CliIdle /\ RequestIdle
  /\ ConcIdle /\ ServiceIdle

TxNext == TxGet \/ TxCheck \/ TxError

ServiceNext == ServiceQuery \/ ServiceFileError \/ ServiceDecide \/ ServiceHandler

ConcNext ==
  \/ ConcRestTry \/ ConcRestExhausted \/ ConcCliRun
  \/ ConcDeductAttempt \/ ConcDeductSleep \/ ConcDeductExhausted

RequestNext == ParseBody \/ Authenticate \/ Process \/ AiReturns \/ Deduct \/ Health

CliNext == CliQuery \/ CliAfter

CompareNext ==
  \/ DeliverRest \/ DeliverRestWrapped \/ DeliverCliJson \/ DeliverCliWrapped
  \/ DeliverCliYaml \/ DeliverService

VerifyNext == RestTry \/ CliRun \/ FailOpen

DeductNext == DeductAttempt \/ DeductSleep \/ DeductExhausted

\* one verify_user_token call
SpecVerify == VerifyInit /\ [][VerifyNext]_vars

\* one deduct_cv_credit_with_retry call
SpecDeduct == DeductInit /\ [][DeductNext]_vars

\* one verification of a transaction's headers
SpecTransaction == TxInit /\ [][TxNext]_vars

\* one verification by the contract service
SpecService == ServiceInit /\ [][ServiceNext]_vars

\* two verify or deduct calls interleaved at their awaits
SpecConcurrent == ConcInit /\ [][ConcNext]_vars

\* one cv-analysis request and the health checks beside it
SpecRequest == RequestInit /\ [][RequestNext]_vars

\* one run of the CLI fallback inside verify_user_token
SpecCli == CliInit /\ [][CliNext]_vars

\* one record and token decided over every delivery and by both verifiers
SpecCompare == CompareInit /\ [][CompareNext]_vars

\* the same call when every deduct attempt and every sleep returns
SpecDeductFair == DeductInit /\ [][DeductNext]_vars /\ WF_vars(DeductNext)

\* ------------------------------------------------- properties of the verifier
Done == vpc = "done"

\* every endpoint candidate was attempted and none returned a value
AllRestFailed == Len(attempts) = EndpointCount /\ ~restReturned

\* the CLI fallback ran and raised (non-zero exit or unparsable output)
CliFailed == cliCalls >= 1 /\ cliOutcome = "raised"

\* a record was obtained and _validate_token decided on it
Decided == Done /\ source # "none" /\ ~warned

\* the record says has_active_token is false: the JSON boolean, or the text
\* "false" of a key: value block
SaysInactive ==
  \/ record.has_active_token = JBool(FALSE)
  \/ source = "cli" /\ cliForm = "yaml" /\ record.has_active_token = JStr(TextFalse)

\* the record says has_active_token is true
SaysActive ==
  \/ record.has_active_token = JBool(TRUE)
  \/ source = "cli" /\ cliForm = "yaml" /\ record.has_active_token = JStr(TextTrue)

FirstSegment(s) == Split(s)[1]

\* TokenMatcher as the specification words it
SegmentMatch(stored, presented) ==
  /\ HasColon(stored)
  /\ HasColon(presented)
  /\ FirstSegment(stored) = FirstSegment(presented)
  /\ FirstSegment(stored) # <<>>

\* C2: when every REST endpoint failed and the CLI fallback failed too, the
\* call returns true and has logged the warning.
C2_FailOpenOnExhaustion ==
  (Done /\ AllRestFailed /\ CliFailed) => (ret = "true" /\ warned)

C2_Witness == Done /\ AllRestFailed /\ CliFailed /\ ret = "true" /\ warned

\* C3: a record that says has_active_token is false makes the call return
\* false, from a REST endpoint (then without any fallback) and from the CLI in
\* either output form.
C3_InactiveRejected ==
  (Done /\ source # "none" /\ SaysInactive)
    => (ret = "false" /\ (source = "rest" => cliCalls = 0))

\* C4: the call returns true only on a record with has_active_token true and a
\* matching stored token, or after all three endpoints and the CLI fallback
\* were attempted and failed.
C4_TrueOnlyOnRecordOrExhaustion ==
  (Done /\ ret = "true")
    => \/ Decided /\ Truthy(Get(record.has_active_token, JBool(FALSE)))
          /\ record.token.k = "str"
          /\ (record.token.s = token \/ FirstSegment(record.token.s) = FirstSegment(token))
       \/ AllRestFailed /\ CliFailed

C6_AcceptIffExactOrSegment ==
  (Decided /\ SaysActive /\ record.token.k = "str" /\ record.token.s # <<>>)
    => ((ret = "true") <=> (record.token.s = token \/ SegmentMatch(record.token.s, token)))

\* C7: on an active record, an empty stored token or an empty presented token
\* is rejected.
C7_EmptyRejected ==
  (Decided /\ SaysActive /\ record.token.k = "str"
     /\ (record.token.s = <<>> \/ token = <<>>))
    => ret = "false"

\* C8: on an active record, the presented token is accepted when it equals the
\* non-empty stored token, and when both are colon-delimited with the same
\* non-empty first segment whatever the later segments are.
C8_MatchAccepted ==
  (Done /\ source # "none" /\ SaysActive /\ record.token.k = "str"
     /\ \/ record.token.s = token /\ token # <<>>
        \/ SegmentMatch(record.token.s, token))
    => ret = "true"

C8_Witness ==
  /\ Done /\ source = "rest" /\ record.has_active_token = JBool(TRUE)
  /\ record.token = JStr(<<"a", ":", "a">>)
  /\ token = <<"a", ":", "b">>
  /\ ret = "true"

\* C9: the endpoints are attempted in the order 1, 2, 3, each at most once,
\* no endpoint is attempted after one returned, and when the third is the one
\* that returns the CLI fallback is not invoked.
C9_EndpointOrder ==
  /\ Len(attempts) <= EndpointCount
  /\ \A i \in 1..Len(attempts) : attempts[i] = i
  /\ restReturned => vpc # "rest"
  /\ (restReturned /\ Len(attempts) = EndpointCount) => (vpc # "cli" /\ cliCalls = 0)

\* C10: the CLI fallback runs only after every REST endpoint was attempted and
\* failed, and at most once.
C10_CliOnlyAfterRestExhausted ==
  /\ cliCalls <= 1
  /\ (vpc = "cli" \/ cliCalls > 0) => AllRestFailed

\* C11: at most one record is obtained and used in a call: _validate_token
\* runs at most once, and once a REST endpoint delivered a record the CLI is
\* not queried.
C11_AtMostOneRecord ==
  /\ validations <= 1
  /\ (source = "rest" /\ validations >= 1) => (vpc # "cli" /\ cliCalls = 0)

\* C12: the call never raises: it ends by returning a boolean, whatever the
\* endpoints and the command do.
C12_ReturnsBoolean ==
  /\ ret \in {"none", "true", "false"}
  /\ Done <=> ret \in {"true", "false"}

\* both the REST record and the CLI record made _validate_token raise, and the
\* call returned
C12_Witness == Done /\ validations = 2 /\ warned /\ ret = "true"

\* ----------------------------------------- properties of the deduction client
DeductDone == dpc = "done"

\* C1: one call debits the ledger exactly once: at most one deduct transaction
\* settles, and exactly one when the returned outcome is a success.
C1_DebitedExactlyOnce ==
  DeductDone => (settled <= 1 /\ (dret.success => settled = 1))


\* C13: deduct_cv_credit is called at most max_retries times; a successful
\* call is the last one and its outcome is returned unchanged; the call that
\* returns success made as many calls as the index of its first success, the
\* call that returns failure made max_retries calls.
C13_BoundedAttempts ==
  /\ calls <= max_retries
  /\ Len(history) = calls
  /\ \A i \in 1..Len(history) :
        history[i] => (i = calls /\ DeductDone /\ dret = lastOutcome /\ dret.success)
  /\ DeductDone =>
        IF dret.success THEN calls >= 1 /\ history[calls]
        ELSE calls = max_retries /\ \A i \in 1..calls : ~history[i]

\* a failed call, then a successful one, then the return with budget left
C13_Witness == DeductDone /\ dret.success /\ max_retries = 3 /\ history = <<FALSE, TRUE>>

\* C14: the i-th sleep (from 0) lasts 2^i; a sleep follows each failed call
\* but the last of the budget, none follows a success; two failures and a
\* success sleep 1 then 2.
C14_Backoff ==
  /\ \A i \in 1..Len(sleeps) : sleeps[i] = 2 ^ (i - 1)
  /\ dpc = "sleep" => (Len(sleeps) = calls - 1 /\ ~history[calls] /\ calls < max_retries)
  /\ dpc = "attempt" =>
        Len(sleeps) = IF calls < max_retries \/ calls = 0 THEN calls ELSE calls - 1
  /\ DeductDone => Len(sleeps) = IF calls = 0 THEN 0 ELSE calls - 1
  /\ (DeductDone /\ history = <<FALSE, FALSE, TRUE>>) => sleeps = <<1, 2>>

\* three failures of a budget of four sleep 1, 2 and 4
C14_Witness == dpc = "attempt" /\ max_retries = 4 /\ calls = 3 /\ sleeps = <<1, 2, 4>>

\* C15: when every call of the budget failed, the returned outcome is the
\* last call's outcome (success false, neither hash nor credits) with its
\* error replaced by a text that states the attempt count.
C15_ExhaustedOutcome ==
  (DeductDone /\ ~dret.success) =>
    /\ calls = max_retries
    /\ ~lastOutcome.success
    /\ dret = [lastOutcome EXCEPT
                 !.error = <<"Failed after ">> \o Decimal(max_retries) \o <<" attempts">>]
    /\ max_retries = 3 => dret.error = <<"Failed after ", "3", " attempts">>

\* three calls failed, the last one with "out of gas"
C15_Witness ==
  /\ DeductDone /\ ~dret.success /\ max_retries = 3 /\ calls = 3
  /\ lastOutcome.error = <<"out of gas">>

\* C16: when every attempt and every sleep returns, the call returns: with a
\* success, or with a failure outcome once the budget is spent.
C16_Terminates ==
  <>(DeductDone /\ (dret.success \/ (dret.has_error /\ calls = max_retries)))

\* the largest budget spent and surfaced as a failure
C16_Witness == DeductDone /\ calls = MaxRetries /\ ~dret.success /\ dret.has_error

\* the outcome carries a hash when it succeeds and an error text when it fails
CarriesHashOrError(o) ==
  IF o.success THEN o.has_tx /\ o.tx_hash # 0
  ELSE o.has_error /\ o.error # <<>>

\* C17: every outcome returned by deduct_cv_credit and by
\* deduct_cv_credit_with_retry carries a non-empty hash when success is true
\* and a non-empty error when it is false.
C17_HashOrErrorPresent ==
  /\ calls >= 1 => CarriesHashOrError(lastOutcome)
  /\ DeductDone => CarriesHashOrError(dret)

BothPopulated(o) == o.has_tx /\ o.tx_hash # 0 /\ o.has_error /\ o.error # <<>>

\* C18: no outcome returned by deduct_cv_credit or by
\* deduct_cv_credit_with_retry holds both a hash and an error text.
C18_NotBothPopulated ==
  /\ calls >= 1 => ~BothPopulated(lastOutcome)
  /\ DeductDone => ~BothPopulated(dret)

\* a call failed in wait_to_complete, after its transaction got a hash
C18_Witness ==
  /\ calls >= 1 /\ submitted >= 1 /\ lastScn.stage = "wait"
  /\ lastOutcome.error = <<"out of gas">> /\ ~lastOutcome.has_tx

\* C19: deduct_cv_credit never raises, and an exception of the construction,
\* of execute or of wait_to_complete yields the dict of success false and the
\* exception's message, with no other key.
C19_NeverRaises ==
  calls >= 1 =>
    /\ ~lastOutcome.raised
    /\ lastScn.stage # "none" =>
          lastOutcome = [success |-> FALSE, has_error |-> TRUE, error |-> lastScn.msg,
                         has_tx |-> FALSE, tx_hash |-> 0, has_credits |-> FALSE,
                         credits_remaining |-> 0, raised |-> FALSE]

\* wait_to_complete timed out
C19_Witness ==
  /\ calls >= 1 /\ lastScn.stage = "wait" /\ lastScn.exc = "QueryTimeoutError"
  /\ lastOutcome.error = <<"connection reset">>

\* C20: a call whose transaction settled (execute and wait_to_complete
\* returned) has success true, with credits_remaining the integer value of a
\* credits_remaining attribute of a wasm event when one is emitted, and 0 when
\* no wasm event carries the attribute.
C20_SettledYieldsCredits ==
  (calls >= 1 /\ lastScn.stage = "none") =>
    /\ lastOutcome.success
    /\ lastOutcome.has_credits
    /\ lastEmitted.vals # {} => lastOutcome.credits_remaining \in lastEmitted.vals
    /\ (lastEmitted.vals = {} /\ ~lastEmitted.bad) => lastOutcome.credits_remaining = 0

\* C28: a call of deduct_cv_credit whose execute and wait_to_complete both
\* returned yields success true with the hash of its transaction, whatever
\* the events hold, and no transaction is submitted after the first one whose
\* settlement was reported.
C28_SettledMeansSuccess ==
  /\ (calls >= 1 /\ lastScn.stage = "none") =>
        (lastOutcome.success /\ lastOutcome.has_tx /\ lastOutcome.tx_hash = submitted)
  /\ observed # 0 => submitted = observed

\* ------------------------------------------ properties of the deliveries
CompareDone == cpc = "done"

\* a contract token record: a boolean has_active_token and a string token
WellTyped(d) == d.has_active_token.k = "bool" /\ d.token.k = "str" /\ ~d.other

\* C21: a contract token record gets the same decision whether an endpoint
\* delivers it or the command prints it, as JSON, as JSON inside a data
\* envelope, or as a key: value block.
C21_SameDecisionAnyDelivery ==
  (CompareDone /\ WellTyped(cRecord)) =>
    /\ cDecision.cliJson = cDecision.rest
    /\ cDecision.cliWrapped = cDecision.rest
    /\ cDecision.cliYaml = cDecision.rest

\* C22: the value handed on from a 200 response is the data member when the
\* object has one and the object itself otherwise, so the decision on
\* {data: R} is the decision on R.
C22_EnvelopeUnwrapped ==
  cpc \notin {"idle", "rest", "restWrapped"} =>
    /\ cUsed.rest = DictValue(cRecord)
    /\ cUsed.restWrapped = DictValue(cRecord)
    /\ cDecision.restWrapped = cDecision.rest

\* an active record inside an envelope is accepted on its first segment
C22_Witness ==
  /\ CompareDone /\ cRecord.has_active_token = JBool(TRUE)
  /\ cRecord.token = JStr(<<"a", ":", "b">>) /\ cToken = <<"a">>
  /\ cDecision.restWrapped = "true"

\* C30: when the contract query succeeds with a contract token record, both
\* verifiers return the same decision.
C30_VerifiersAgree ==
  (CompareDone /\ WellTyped(cRecord)) => cDecision.service = cDecision.rest

\* ------------------------------------------ properties of the CLI fallback
\* stdout is a JSON document
ValidJson(run) == run.rc = 0 /\ run.form = "json" /\ run.doc.shape # "undecodable"

\* stdout is a flat block of indented key: value lines under "data:"
FlatBlock(run) == run.rc = 0 /\ run.form = "yaml" /\ ~run.yaml.bad /\ ~run.yaml.nested

\* C29: _query_contract_cli returns a value only for stdout that is JSON or a
\* flat key: value block, raises on every other output (a block with a nested
\* structure included), and verify_user_token takes the exception as a failed
\* fallback attempt.
C29_OtherShapesRaise ==
  qpc # "run" =>
    /\ ~qOut.raised => (ValidJson(qRun) \/ FlatBlock(qRun))
    /\ (qRun.form # "nospawn" /\ qRun.rc = 0 /\ ~ValidJson(qRun) /\ ~FlatBlock(qRun)) => qOut.raised
    /\ (qpc = "done" /\ qOut.raised) => qTreat = "failed"

\* ---------------------------------------- properties of the request flow
RequestDone == rpc = "done"

\* C23: the credentials are verified before the AI rewrite starts, and
\* deduct_cv_credit is called only for a request whose credentials were
\* verified and whose AI call succeeded.
C23_DeductOnlyAfterSuccess ==
  /\ rAi # "none" => rVerified
  /\ rpc = "ai" => rVerified
  /\ rDeducts >= 1 => (rVerified /\ rAi = "ok")

\* C24: a deduction outcome with success false fails the request with status
\* 400 and the detail "Failed to deduct credit: <error>", without the CV.
C24_DeductFailureIs400 ==
  (RequestDone /\ rDeducts >= 1 /\ ~rDeduction.success) =>
    /\ rStatus = 400
    /\ rDetail = <<"Failed to deduct credit: ">> \o rDeduction.error
    /\ rBody = {}

\* C26: a well-formed request in development mode whose deduction succeeded is
\* answered 200 with a body that holds the keys skills and work_experience.
C26_ResponseKeys ==
  (RequestDone /\ rWellFormed /\ rMode = "development" /\ rDeducts >= 1 /\ rDeduction.success) =>
    /\ rStatus = 200
    /\ "skills" \in rBody
    /\ "work_experience" \in rBody

\* C27: every answer of GET /health is 200 {"status": "ok"}, whatever the
\* request beside it is doing or has failed with.
C27_HealthAlwaysOk ==
  health # NoHealth => (health.status = 200 /\ health.body = <<"status", "ok">>)

\* /health answered after a request failed in the deduction
C27_Witness ==
  /\ RequestDone /\ rStatus = 500 /\ rDeducts = 1 /\ ~rDeduction.success
  /\ health.status = 200

\* -------------------------------------- properties of concurrent calls
\* a verify call's result follows from the results of its own queries: every
\* query before the last failed, and the last one decided, or all EndpointCount
\* endpoints and the command failed and the call returned true
OwnVerifyResult(p) ==
  LET n == Len(pLog[p])
  IN /\ n >= 1 /\ n <= EndpointCount + 1
     /\ \A i \in 1..(n - 1) : pLog[p][i] = "fail"
     /\ IF pLog[p][n] \in {"true", "false"} THEN pRet[p] = pLog[p][n]
        ELSE n = EndpointCount + 1 /\ pRet[p] = "true"
     /\ pSleeps[p] = <<>>

\* a deduct call's result follows from its own attempts: every attempt before
\* the last failed, the last one succeeded or was the third, and the sleeps
\* count the call's own attempts
OwnDeductResult(p) ==
  LET n == Len(pLog[p])
  IN /\ n >= 1 /\ n <= DefaultMaxRetries
     /\ \A i \in 1..(n - 1) : pLog[p][i] = "fail"
     /\ IF pLog[p][n] = "ok" THEN pRet[p] = "success"
        ELSE n = DefaultMaxRetries /\ pRet[p] = "failure"
     /\ pSleeps[p] = [i \in 1..(n - 1) |-> 2 ^ (i - 1)]

\* C25: in every interleaving of two calls the configuration stays as
\* constructed and each call's result, attempt count and backoff follow from
\* the responses to its own transport calls alone.
C25_CallsIndependent ==
  /\ config = Configured
  /\ \A p \in Procs :
       ppc[p] = "done" =>
         IF pKind[p] = "verify" THEN OwnVerifyResult(p) ELSE OwnDeductResult(p)

\* a verify call that fell open after four failed queries, beside a deduct
\* call that succeeded on its third attempt
C25_Witness ==
  /\ pKind = <<"verify", "deduct">> /\ ppc = <<"done", "done">>
  /\ Len(pLog[1]) = EndpointCount + 1 /\ pRet[1] = "true" /\ pLog[1][1] = "fail"
  /\ pLog[2] = <<"fail", "fail", "ok">> /\ pRet[2] = "success"

\* ------------------------------ properties of the service's verification
\* the presented token has exactly three or at least five segments and the
\* stored token equals its first three segments or shares its first segment
SegmentsMatch(stored, presented) ==
  LET parts == Split(presented)
  IN /\ Len(parts) = 3 \/ Len(parts) >= 5
     /\ stored.k = "str"
     /\ \/ stored.s = parts[1] \o <<":">> \o parts[2] \o <<":">> \o parts[3]
        \/ Split(stored.s)[1] = parts[1]

\* the query raised a file-not-found error that names the contract address
FileErrorNamesContract ==
  /\ sQuery.raised /\ sQuery.exc = "FileNotFoundError"
  /\ \E i \in 1..Len(sQuery.msg) : sQuery.msg[i] = Configured.contract_address

\* C31: the service's verify_user_token returns a boolean, true only if the
\* query returned an active record whose stored token matches the presented
\* token of three or at least five segments, or the query raised a
\* file-not-found error naming the contract address; every other query error
\* yields false.
C31_ServiceFailClosed ==
  spc = "done" =>
    /\ sRet \in {"true", "false"}
    /\ sRet = "true" =>
         \/ /\ ~sQuery.raised
            /\ sQuery.result.has_active_token = JBool(TRUE)
            /\ SegmentsMatch(sQuery.result.token, sToken)
         \/ FileErrorNamesContract
    /\ (sQuery.raised /\ ~FileErrorNamesContract) => sRet = "false"

\* -------------------------- properties of the transaction verification
\* the API answered 200 with a transaction sent by the presented key and of
\* status "confirmed"
TxGood ==
  /\ ~tAnswer.raised /\ tAnswer.code = 200 /\ tAnswer.body.shape = "dict"
  /\ tAnswer.body.sender = JStr(tKey)
  /\ tAnswer.body.status = JStr(<<"confirmed">>)

\* a non-200 answer, or a 200 answer with a transaction of another sender or
\* of a status other than "confirmed"
TxRejected ==
  /\ ~tAnswer.raised
  /\ \/ tAnswer.code # 200
     \/ /\ tAnswer.body.shape = "dict"
        /\ \/ tAnswer.body.sender # JStr(tKey)
           \/ tAnswer.body.status # JStr(<<"confirmed">>)

\* C32: verify_xion_transaction returns the verification data only if the API
\* answered 200 with the presented key as sender and status "confirmed"; a
\* non-200 answer, sender mismatch or unconfirmed status raises 401, any other
\* error raises 500, and no raised outcome carries verification data.
C32_DataOnlyWhenConfirmed ==
  tpc = "done" =>
    /\ tOut.kind = "returned" => (TxGood /\ tOut.data = VerificationData(tKey))
    /\ TxRejected => (tOut.kind = "raised" /\ tOut.status = 401)
    /\ (~TxGood /\ ~TxRejected) => (tOut.kind = "raised" /\ tOut.status = 500)
    /\ tOut.kind = "raised" => tOut.data = NoData

\* the call returned the data of a confirmed transaction sent by key "b"
C32_Witness ==
  /\ tpc = "done" /\ tOut = Returned(<<"b">>) /\ TxGood

====
